---- MODULE Spec2Model ----
(***************************************************************************)
(* Host-side adapter of src/wasm/wasm.go: the memory marshaling protocol   *)
(* (packed length+offset descriptors, buffer and buffer-array writers, the *)
(* output reader) and the per-call instance lifecycle of the seven public  *)
(* operations.                                                             *)
(*                                                                         *)
(* Integer widths.  The program packs two 32-bit fields into an int64 and  *)
(* reads guest offsets as int32.  TLC's integers are 32 bits wide, so the  *)
(* model keeps every width RELATION of the program at a reduced width:     *)
(*   a descriptor field has HalfBits bits        (program: 32),            *)
(*   int32 is the signed HalfBits-bit integer    (program: int32),         *)
(*   int64 and int are signed 2*HalfBits bits    (program: 64),            *)
(*   a descriptor is stored in DescBytes bytes   (program: 8),             *)
(*   a byte is a byte (0..255).                                            *)
(* Sign extension, arithmetic shift, mask, slicing and little-endian       *)
(* encoding are computed as the Go code computes them, modulo these widths.*)
(***************************************************************************)
EXTENDS Integers, Sequences, FiniteSets, TLC

\* Bits of one descriptor field (program: 32, wasm.go:48).
HalfBits == 5

Half == 2 ^ HalfBits
SignBit == 2 ^ (HalfBits - 1)
DescBits == 2 * HalfBits
DescRange == 2 ^ DescBits
\* Bytes one stored descriptor takes (program: 8, wasm.go:28 and :42).
DescBytes == (DescBits + 7) \div 8

(***************************************************************************)
(* Go integer conversions.                                                 *)
(***************************************************************************)
\* The signed value of the low `range` states of x (two's complement).
ToSigned(x, range) ==
  LET u == x % range
  IN IF u >= range \div 2 THEN u - range ELSE u

\* res.ToI32(): the guest's i32 result (bit pattern u) as a Go int32.
ToI32(u) == ToSigned(u, Half)

\* int64(x) / int(x) on a value already held in a narrower signed type, and
\* the wrap of an int expression to 64 bits.
ToI64(x) == ToSigned(x, DescRange)

\* uint64(x): the bit pattern of an int64.
ToU64(x) == x % DescRange

RECURSIVE BitOr(_, _, _)
\* a | b on two unsigned values of n bits.
BitOr(a, b, n) ==
  IF n = 0 THEN 0
  ELSE (IF a % 2 = 1 \/ b % 2 = 1 THEN 1 ELSE 0)
       + 2 * BitOr(a \div 2, b \div 2, n - 1)

(***************************************************************************)
(* Descriptor codec, as the expressions of the source.                     *)
(***************************************************************************)
\* A packing with the two fields in each other's place.
PackSwapped(sz, ptr) ==
  ToI64(BitOr(ToU64(ToI64(ptr * Half)), ToU64(sz), DescBits))

\* int64(sz<<32) | int64(ptr), sz an int, ptr an int32 (sign-extended).
PackDescriptor(sz, ptr) ==
  ToI64(BitOr(ToU64(ToI64(sz * Half)), ToU64(ptr), DescBits))

\* int(ptr>>32): arithmetic shift of an int64.
UnpackSz(d) == d \div Half

\* ptr & ((1 << 32) - 1): never negative.
UnpackPointer(d) == d % Half

\* The two fields of a descriptor as the unsigned numbers the wire format
\* defines.
LengthField(d) == (ToU64(d) \div Half) % Half
OffsetField(d) == ToU64(d) % Half

(***************************************************************************)
(* Linear memory: a sequence of bytes, offset o is element o+1.            *)
(***************************************************************************)
Zeros(n) == [i \in 1 .. n |-> 0]

\* copy(mem[off:], bytes), the caller having checked that it fits.
WriteBytes(mem, off, bytes) ==
  [i \in 1 .. Len(mem) |->
     IF i > off /\ i <= off + Len(bytes) THEN bytes[i - off] ELSE mem[i]]

\* The n bytes of mem from offset off.
MemRange(mem, off, n) == [i \in 1 .. n |-> mem[off + i]]

\* The bytes of v most significant first.
BigEndian(v) ==
  [i \in 1 .. DescBytes |-> (v \div (256 ^ (DescBytes - i))) % 256]

\* binary.LittleEndian.PutUint64: byte i is bits 8i..8i+7.
LittleEndian(v) == [i \in 1 .. DescBytes |-> (v \div (256 ^ (i - 1))) % 256]

RECURSIVE FromLittleEndian(_)
\* binary.LittleEndian.Uint64 of the bytes b, as the guest reads a descriptor.
FromLittleEndian(b) ==
  IF b = <<>> THEN 0 ELSE b[1] + 256 * FromLittleEndian(Tail(b))

(***************************************************************************)
(* Errors and outcomes.  An error value is <<kind, detail>>; an outcome is *)
(* what a Go function ends with: a value and a nil error ("ok"), a non-nil *)
(* error ("err"), or a run-time panic ("panic": the function does not      *)
(* return, the stack unwinds through the deferred calls).                  *)
(***************************************************************************)
NoErr == <<"nil", "">>
ErrAllocateInner == <<"InsufficientMemory", "allocateInner: invalid memory size">>
ErrAllocate == <<"InsufficientMemory", "allocate: invalid memory size">>
ErrParseOutput == <<"InvalidMemoryBounds", "parseOutput: invalid memory size">>
ErrInvalidName == <<"InvalidName", "Invalid name character">>
ErrInstantiate == <<"InstantiationFailure", "NewInstance">>
ErrNotImplemented(name) == <<"MissingExport", name>>
ErrTrap(name) == <<"GuestTrap", name>>
PanicNilFunc == <<"panic", "call of nil func">>
PanicSliceBounds == <<"panic", "slice bounds out of range">>
PanicMakeSlice == <<"panic", "makeslice: len out of range">>

Ok(v, m) == [kind |-> "ok", val |-> v, err |-> NoErr, mem |-> m]
Fail(e, m) == [kind |-> "err", val |-> 0, err |-> e, mem |-> m]
Panic(e, m) == [kind |-> "panic", val |-> 0, err |-> e, mem |-> m]

(***************************************************************************)
(* The guest allocator, seen from the host: one call of __allocate either  *)
(* traps or returns an i32 (bit pattern p); while it runs the guest may    *)
(* grow its linear memory, in place or by moving it.                       *)
(***************************************************************************)
\* Cells one growth adds (program: a 64 KiB page).
GrowBy == 4

GuestGrow(mem, g) == IF g.grow = "none" THEN mem ELSE mem \o Zeros(GrowBy)

(***************************************************************************)
(* allocateInner: the Buffer Writer.  hasAlloc: the module exports         *)
(* __allocate; g: what the guest does in the call.                         *)
(***************************************************************************)
allocateInner(mem, hasAlloc, data, g) ==
  LET sz == Len(data)
      grown == GuestGrow(mem, g)
      ptr == ToI32(g.p)
  IN IF ~hasAlloc THEN Panic(PanicNilFunc, mem)
     ELSE IF g.trap THEN Fail(ErrTrap("__allocate"), grown)
     ELSE IF ptr < 0 \/ ptr > Len(grown) THEN Panic(PanicSliceBounds, grown)
     ELSE IF Len(grown) - ptr < sz THEN Fail(ErrAllocateInner, grown)
     ELSE Ok(PackDescriptor(sz, ptr), WriteBytes(grown, ptr, data))

\* allocate, lines 27 to 36: the descriptor table is requested and its view
\* validated; the value of an "ok" is the table offset ptr.
allocateTable(mem, hasAlloc, k, g) ==
  LET grown == GuestGrow(mem, g)
      ptr == ToI32(g.p)
  IN IF ~hasAlloc THEN Panic(PanicNilFunc, mem)
     ELSE IF g.trap THEN Fail(ErrTrap("__allocate"), grown)
     ELSE IF ptr < 0 \/ ptr > Len(grown) THEN Panic(PanicSliceBounds, grown)
     ELSE IF Len(grown) - ptr < DescBytes * k THEN Fail(ErrAllocate, grown)
     ELSE Ok(ptr, grown)

(***************************************************************************)
(* parseOutput: the Output Reader.                                         *)
(***************************************************************************)
parseOutput(mem, d) ==
  LET sz == UnpackSz(d)
      pointer == UnpackPointer(d)
  IN IF pointer > Len(mem) THEN Panic(PanicSliceBounds, mem)
     ELSE IF Len(mem) - pointer < sz THEN Fail(ErrParseOutput, mem)
     ELSE IF sz < 0 THEN Panic(PanicMakeSlice, mem)
     ELSE [kind |-> "ok", val |-> MemRange(mem, pointer, sz), err |-> NoErr,
           mem |-> mem]

\* A result that is a slice of the instance's memory.
GuestBacking == "guest"

\* parseOutput, lines 53 to 57: res := make([]byte, sz) and the loop that
\* fills it; the buffer returned is backed by a new allocation of the host.
ResultBacking == "host"

(***************************************************************************)
(* Name's check: range over string(rawResult) decodes UTF-8, an invalid    *)
(* byte decoding to U+FFFD; unicode.IsPrint on each rune.  Decoding is     *)
(* modelled for one- and two-byte sequences and IsPrint for Latin-1 and    *)
(* U+FFFD: the names the modelled guests produce stay within these.        *)
(***************************************************************************)
RuneError == 65533

RECURSIVE DecodeRunes(_)
DecodeRunes(b) ==
  IF b = <<>> THEN <<>>
  ELSE IF b[1] < 128 THEN <<b[1]>> \o DecodeRunes(Tail(b))
  ELSE IF /\ b[1] \in 194 .. 223
          /\ Len(b) >= 2
          /\ b[2] \in 128 .. 191
       THEN <<(b[1] - 192) * 64 + (b[2] - 128)>> \o DecodeRunes(Tail(Tail(b)))
  ELSE <<RuneError>> \o DecodeRunes(Tail(b))

\* A printable test that knows the ASCII control characters only.
IsPrintASCIIControlsOnly(r) == r >= 32 /\ r # 127

\* unicode.IsPrint: letters, marks, numbers, punctuation, symbols and the
\* ASCII space.
IsPrint(r) ==
  \/ r \in 32 .. 126
  \/ r \in (161 .. 255) \ {173}
  \/ r = RuneError

(***************************************************************************)
(* The public operations and the guest export each one calls.              *)
(***************************************************************************)
NoInputOps == {"Name", "ParamsInfo", "RawDataInfo"}
ParamsOps == {"ParseParams", "Prepare", "Execute"}
Ops == NoInputOps \cup ParamsOps \cup {"ParseRawData"}

ExportName(op) ==
  CASE op = "Name" -> "__name"
    [] op = "ParamsInfo" -> "__params_info"
    [] op = "ParseParams" -> "__parse_params"
    [] op = "RawDataInfo" -> "__raw_data_info"
    [] op = "ParseRawData" -> "__parse_raw_data"
    [] op = "Prepare" -> "__prepare"
    [] op = "Execute" -> "__execute"

(***************************************************************************)
(* State: one record per call.  Every public operation creates its own     *)
(* instance, so a call's record holds its instance (live, mem, closes),    *)
(* the operation's arguments and locals, and its position pc.  log is the  *)
(* history of the call's events, <<kind, a, b>>, and stores the history of *)
(* its allocator calls: what was asked, what the guest answered, how the   *)
(* host's function ended.  readMem is the memory as the result read found  *)
(* it, backing where the bytes of the returned buffer live.                *)
(***************************************************************************)
VARIABLES st

vars == <<st>>

Calls == {1}

NoResult == [kind |-> "none", val |-> <<>>, err |-> NoErr]

IdleCall ==
  [pc |-> "idle", op |-> "none", guest |-> "any", valid |-> TRUE,
   exports |-> {}, memSize |-> 0, params |-> <<>>, data |-> <<>>,
   inputs |-> <<>>, live |-> FALSE, closes |-> 0, mem |-> <<>>,
   grown |-> FALSE, paramsInput |-> 0, dataInput |-> 0, wasmInput |-> 0,
   err |-> NoErr, tablePtr |-> 0, idx |-> 0, viewStale |-> FALSE,
   ptr |-> 0, parsed |-> FALSE, rawResult |-> <<>>, result |-> NoResult,
   log |-> <<>>, stores |-> <<>>, base |-> 0, bump |-> 0,
   readMem |-> <<>>, backing |-> "none"]

Init == st = [c \in Calls |-> IdleCall]

Ev(s, kind, a, b) == Append(s.log, <<kind, a, b>>)

\* A return that leaves without the deferred close on the error paths.
ReturnClosingOnSuccessOnly(s, kind, v, e) ==
  [s EXCEPT !.pc = IF kind = "err" THEN "returned" ELSE "closing",
            !.result = [kind |-> kind, val |-> v, err |-> e]]

\* A return that swallows the error it was given.
ReturnDroppingError(s, kind, v, e) ==
  [s EXCEPT !.pc = "closing",
            !.result = [kind |-> "ok", val |-> v, err |-> NoErr]]

\* return v, nil / return nil, err / a panic: the function's frame ends and
\* the deferred instance.Close() is what remains to run.
Return(s, kind, v, e) ==
  [s EXCEPT !.pc = "closing", !.result = [kind |-> kind, val |-> v, err |-> e]]

(***************************************************************************)
(* Arguments the callers pass and modules they pass them with.             *)
(***************************************************************************)
\* Initial size of a small module's memory, in bytes.
SmallMem == 10
\* A memory reaching past the offsets an int32 holds as non-negative.
BigMem == SignBit + 4
MemSizes == {SmallMem, BigMem}

ParamBufs == {<<>>, <<65>>}
DataBufs == {<<>>, <<66, 67>>}
InputArrays == {<<>>, <<<<1, 2, 3>>>>, <<<<7>>, <<8, 9>>>>}
\* The non-empty arrays of the end-to-end scenario.
ScenarioInputs ==
  (InputArrays \ {<<>>}) \cup {<<<<>>, <<7>>>>, <<<<1, 2, 3>>, <<4, 5, 6>>>>}

(***************************************************************************)
(* What an untrusted guest may do in one call.                             *)
(***************************************************************************)
\* Offsets (i32 bit patterns) __allocate may return: inside memory, at and
\* past its end, with the top bit set.
AllocOffsets(s) ==
  {0, 4, 7, Len(s.mem), Len(s.mem) + 1, SignBit + 1, Half - 1} \cap (0 .. Half - 1)

AnyAllocResponses(s) ==
  {[trap |-> TRUE, p |-> 0, grow |-> "none"]}
  \cup {[trap |-> FALSE, p |-> p, grow |-> g] :
          p \in AllocOffsets(s),
          g \in IF s.grown \/ Len(s.mem) + GrowBy >= Half
                THEN {"none"} ELSE {"none", "inplace", "moved"}}

\* Descriptors (i64) a named export may return: any length field with any
\* offset field.
ExportLengths == {0, 1, 2, SignBit, Half - 1}
ExportOffsets(s) ==
  {0, Len(s.mem) - 1, Len(s.mem), Len(s.mem) + 1, Half - 1} \cap (0 .. Half - 1)
ExportDescs(s) ==
  {ToI64(l * Half + o) : l \in ExportLengths, o \in ExportOffsets(s)}

\* Bytes the named export leaves at offset 0 of memory before it returns.
GuestNames ==
  {<<>>, <<65, 66>>, <<65, 10>>, <<194, 133>>, <<194, 169>>, <<255, 65>>}
GuestWrites(s) == IF s.op = "Name" THEN GuestNames ELSE {<<5, 6>>}

\* One call of the named export: a trap, or a descriptor d returned with the
\* memory as the guest leaves it.
AnyExportResponses(s) ==
  {[trap |-> TRUE, d |-> 0, mem |-> s.mem, bump |-> s.bump]}
  \cup {[trap |-> FALSE, d |-> d, mem |-> WriteBytes(s.mem, 0, w),
         bump |-> s.bump] : d \in ExportDescs(s), w \in GuestWrites(s)}

(***************************************************************************)
(* The guest module of the end-to-end scenario: __allocate bump-allocates  *)
(* from a static offset (s.bump is the next free offset) and never grows   *)
(* the memory; __execute reads the first descriptor of the inputs table,   *)
(* copies the bytes it addresses into a newly allocated region and returns *)
(* that region's descriptor.  A guest access outside its memory traps.     *)
(***************************************************************************)
BumpAllocate(s) == {[trap |-> FALSE, p |-> s.bump % Half, grow |-> "none"]}

ExecuteCopy(s) ==
  LET t == OffsetField(s.wasmInput)
      tableOk == t + DescBytes <= Len(s.mem)
      d == ToI64(FromLittleEndian(MemRange(s.mem, t, DescBytes)))
      n == LengthField(d)
      from == OffsetField(d)
      to == s.bump % Half
  IN IF tableOk /\ from + n <= Len(s.mem) /\ to + n <= Len(s.mem)
     THEN {[trap |-> FALSE, d |-> ToI64(n * Half + to),
            mem |-> WriteBytes(s.mem, to, MemRange(s.mem, from, n)),
            bump |-> s.bump + n]}
     ELSE {[trap |-> TRUE, d |-> 0, mem |-> s.mem, bump |-> s.bump]}

AllocResponses(s) ==
  IF s.guest = "bump" THEN BumpAllocate(s) ELSE AnyAllocResponses(s)

ExportResponses(s) ==
  IF s.guest = "bump" THEN ExecuteCopy(s) ELSE AnyExportResponses(s)

(***************************************************************************)
(* Actions.  A guest call is synchronous: each action is the host code     *)
(* from one guest call (or from the function's entry) up to the next.      *)
(***************************************************************************)
\* A caller invokes one of the seven operations.
Start(c) ==
  /\ st[c].pc = "idle"
  /\ \E op \in Ops, valid \in BOOLEAN, hasExport \in BOOLEAN,
        hasAlloc \in BOOLEAN, m \in MemSizes, p \in ParamBufs,
        d \in DataBufs, a \in InputArrays :
       /\ op \in NoInputOps => p = <<>> /\ hasAlloc
       /\ op # "ParseRawData" => d = <<>>
       /\ op # "Execute" => a = <<>>
       /\ ~valid => hasExport /\ hasAlloc /\ m = SmallMem /\ p = <<>>
                    /\ d = <<>> /\ a = <<>>
       /\ st' = [st EXCEPT ![c] =
            [IdleCall EXCEPT
               !.pc = "new", !.op = op, !.valid = valid, !.memSize = m,
               !.exports = (IF hasExport THEN {ExportName(op)} ELSE {})
                           \cup (IF hasAlloc THEN {"__allocate"} ELSE {}),
               !.params = p, !.data = d, !.inputs = a]]

\* A caller invokes Execute on the module of the end-to-end scenario.
BumpBases == {0, 2, 4, SignBit - 2}

StartScenario(c) ==
  /\ st[c].pc = "idle"
  /\ \E m \in MemSizes, b \in BumpBases, p \in ParamBufs, a \in ScenarioInputs :
       /\ b < m
       /\ st' = [st EXCEPT ![c] =
            [IdleCall EXCEPT
               !.pc = "new", !.op = "Execute", !.guest = "bump",
               !.memSize = m, !.exports = {"__allocate", "__execute"},
               !.base = b, !.bump = b, !.params = p, !.inputs = a]]

\* wasm.NewInstance(code) and the defer of instance.Close().
NewInstance(c) ==
  LET s == st[c]
  IN /\ s.pc = "new"
     /\ st' = [st EXCEPT ![c] =
          IF ~s.valid
          THEN [s EXCEPT !.pc = "returned",
                         !.result = [kind |-> "err", val |-> <<>>,
                                     err |-> ErrInstantiate]]
          ELSE [s EXCEPT !.pc = IF s.op \in NoInputOps THEN "export"
                                ELSE "storeParams",
                         !.live = TRUE, !.mem = Zeros(s.memSize),
                         !.log = Ev(s, "new", 0, 0)]]

\* The history entry of one allocator call: n bytes asked for `data` (for
\* the table: no data), the guest's answer g, the host function's outcome r.
StoreRecord(what, n, data, g, r) ==
  [what |-> what, n |-> n, data |-> data, trap |-> g.trap, p |-> g.p,
   memLen |-> Len(r.mem), kind |-> r.kind, err |-> r.err, val |-> r.val]

\* An allocator call recorded with the write ahead of the request.
AfterAllocWriteFirst(s, what, data, g, r) ==
  LET n == IF what = "table" THEN DescBytes * Len(s.inputs) ELSE Len(data)
      called == "__allocate" \in s.exports
      ask == <<"alloc", n, IF g.trap THEN -1 ELSE g.p>>
  IN [s EXCEPT
        !.mem = r.mem,
        !.grown = s.grown \/ (called /\ g.grow # "none"),
        !.bump = IF s.guest = "bump" THEN s.bump + n ELSE s.bump,
        !.stores = Append(s.stores, StoreRecord(what, n, data, g, r)),
        !.log = IF ~called THEN s.log
                ELSE IF r.kind = "ok" /\ what # "table" /\ n > 0
                THEN Append(Append(s.log, <<"write", ToI32(g.p), n>>), ask)
                ELSE Append(s.log, ask)]

\* The record after one allocator call: the guest has run (when the export
\* exists), the host has written the data (when r is "ok").
AfterAlloc(s, what, data, g, r) ==
  LET n == IF what = "table" THEN DescBytes * Len(s.inputs) ELSE Len(data)
      called == "__allocate" \in s.exports
      asked == Append(s.log, <<"alloc", n, IF g.trap THEN -1 ELSE g.p>>)
  IN [s EXCEPT
        !.mem = r.mem,
        !.grown = s.grown \/ (called /\ g.grow # "none"),
        !.bump = IF s.guest = "bump" THEN s.bump + n ELSE s.bump,
        !.stores = Append(s.stores, StoreRecord(what, n, data, g, r)),
        !.log = IF ~called THEN s.log
                ELSE IF r.kind = "ok" /\ what # "table" /\ n > 0
                THEN Append(asked, <<"write", ToI32(g.p), n>>)
                ELSE asked]

\* ParseParams, Prepare, Execute: paramsInput, err := storeParams(...);
\* if err != nil { return nil, err }.
StoreParams(c) ==
  LET s == st[c]
  IN /\ s.pc = "storeParams"
     /\ s.op \in ParamsOps
     /\ \E g \in AllocResponses(s) :
          LET r == allocateInner(s.mem, "__allocate" \in s.exports, s.params, g)
              t == AfterAlloc(s, "params", s.params, g, r)
          IN st' = [st EXCEPT ![c] =
               IF r.kind = "ok"
               THEN [t EXCEPT !.paramsInput = r.val,
                              !.pc = IF s.op = "Execute" THEN "allocTable"
                                     ELSE "export"]
               ELSE Return(t, r.kind, <<>>, r.err)]

\* ParseRawData, line 151: paramsInput, err := storeParams(...); err is not
\* looked at before line 152 assigns it again.
ParseRawDataStoreParams(c) ==
  LET s == st[c]
  IN /\ s.pc = "storeParams"
     /\ s.op = "ParseRawData"
     /\ \E g \in AllocResponses(s) :
          LET r == allocateInner(s.mem, "__allocate" \in s.exports, s.params, g)
              t == AfterAlloc(s, "params", s.params, g, r)
          IN st' = [st EXCEPT ![c] =
               IF r.kind = "panic"
               THEN Return(t, r.kind, <<>>, r.err)
               ELSE [t EXCEPT !.paramsInput = r.val, !.err = r.err,
                              !.pc = "storeData"]]

\* ParseRawData, lines 152 to 155: dataInput, err := allocateInner(...);
\* if err != nil { return nil, err }.
ParseRawDataStoreData(c) ==
  LET s == st[c]
  IN /\ s.pc = "storeData"
     /\ \E g \in AllocResponses(s) :
          LET r == allocateInner(s.mem, "__allocate" \in s.exports, s.data, g)
              t == AfterAlloc(s, "data", s.data, g, r)
          IN st' = [st EXCEPT ![c] =
               IF r.kind = "ok"
               THEN [t EXCEPT !.dataInput = r.val, !.err = r.err,
                              !.pc = "export"]
               ELSE Return(t, r.kind, <<>>, r.err)]

\* Execute, line 198, into allocate, lines 27 to 36: the table is requested
\* and the view mem of the memory from the table offset is taken; with no
\* element the loop is empty and allocate returns at line 44.
AllocateTable(c) ==
  LET s == st[c]
      k == Len(s.inputs)
  IN /\ s.pc = "allocTable"
     /\ \E g \in AllocResponses(s) :
          LET r == allocateTable(s.mem, "__allocate" \in s.exports, k, g)
              t == AfterAlloc(s, "table", <<>>, g, r)
          IN st' = [st EXCEPT ![c] =
               IF r.kind # "ok" THEN Return(t, r.kind, <<>>, r.err)
               ELSE IF k = 0
               THEN [t EXCEPT !.tablePtr = r.val,
                              !.wasmInput = PackDescriptor(k, r.val),
                              !.pc = "export"]
               ELSE [t EXCEPT !.tablePtr = r.val, !.idx = 0,
                              !.viewStale = FALSE, !.pc = "allocElem"]]

\* What the store through the view taken at line 33 does once the guest has
\* moved its memory since: the view addresses the memory's former place, so
\* the store does not reach the memory ("lost") or faults ("fault").
ViewOutcomes(stale) == IF stale THEN {"lost", "fault"} ELSE {"lands"}

\* allocate, lines 37 to 44: one turn of the loop, and the return after the
\* last one.
AllocateElement(c) ==
  LET s == st[c]
      k == Len(s.inputs)
      each == s.inputs[s.idx + 1]
  IN /\ s.pc = "allocElem"
     /\ \E g \in AllocResponses(s) :
          LET r == allocateInner(s.mem, "__allocate" \in s.exports, each, g)
              t == AfterAlloc(s, "elem", each, g, r)
              stale == s.viewStale \/ g.grow = "moved"
              at == s.tablePtr + DescBytes * s.idx
          IN IF r.kind # "ok"
             THEN st' = [st EXCEPT ![c] = Return(t, r.kind, <<>>, r.err)]
             ELSE \E o \in ViewOutcomes(stale) :
                    st' = [st EXCEPT ![c] =
                      IF o = "fault"
                      THEN [t EXCEPT !.pc = "crashed", !.viewStale = stale,
                                     !.result = [kind |-> "fatal", val |-> <<>>,
                                                 err |-> NoErr]]
                      ELSE [t EXCEPT
                              !.mem = IF o = "lands"
                                      THEN WriteBytes(t.mem, at,
                                             LittleEndian(ToU64(r.val)))
                                      ELSE t.mem,
                              !.log = Append(t.log, <<"table", at, s.idx>>),
                              !.viewStale = stale,
                              !.idx = s.idx + 1,
                              !.wasmInput = IF s.idx + 1 = k
                                            THEN PackDescriptor(k, s.tablePtr)
                                            ELSE s.wasmInput,
                              !.pc = IF s.idx + 1 = k THEN "export"
                                     ELSE "allocElem"]]

\* The seven operations: fn := instance.Exports[name]; if fn == nil
\* { return ..., errors.New(name + " not implemented") }; ptr, err := fn(...);
\* if err != nil { return ..., err }.
CallExport(c) ==
  LET s == st[c]
      name == ExportName(s.op)
  IN /\ s.pc = "export"
     /\ \/ /\ name \notin s.exports
           /\ st' = [st EXCEPT ![c] =
                       Return(s, "err", <<>>, ErrNotImplemented(name))]
        \/ /\ name \in s.exports
           /\ \E e \in ExportResponses(s) :
                LET t == [s EXCEPT !.mem = e.mem, !.bump = e.bump,
                                   !.log = Ev(s, "call", 0, 0)]
                IN st' = [st EXCEPT ![c] =
                     IF e.trap THEN Return(t, "err", <<>>, ErrTrap(name))
                     ELSE [t EXCEPT !.ptr = e.d, !.pc = "parse"]]

\* return parseOutput(instance, ptr.ToI64()), and in Name
\* rawResult, err := parseOutput(...); if err != nil { return "", err }.
ParseResult(c) ==
  LET s == st[c]
      r == parseOutput(s.mem, s.ptr)
      t == [s EXCEPT !.parsed = TRUE,
                      !.readMem = s.mem,
                      !.backing = IF r.kind = "ok" THEN ResultBacking
                                  ELSE s.backing,
                      !.log = IF r.kind = "ok"
                              THEN Ev(s, "read", UnpackPointer(s.ptr),
                                      UnpackSz(s.ptr))
                              ELSE s.log]
  IN /\ s.pc = "parse"
     /\ st' = [st EXCEPT ![c] =
          IF r.kind = "ok" /\ s.op = "Name"
          THEN [t EXCEPT !.rawResult = r.val, !.pc = "checkName"]
          ELSE IF r.kind = "ok" THEN Return(t, "ok", r.val, NoErr)
          ELSE Return(t, r.kind, <<>>, r.err)]

\* Name, lines 82 to 87.
CheckName(c) ==
  LET s == st[c]
      runes == DecodeRunes(s.rawResult)
  IN /\ s.pc = "checkName"
     /\ st' = [st EXCEPT ![c] =
          IF \E i \in 1 .. Len(runes) : ~IsPrint(runes[i])
          THEN Return(s, "err", <<>>, ErrInvalidName)
          ELSE Return(s, "ok", s.rawResult, NoErr)]

\* A close that closes every live instance, not the call's own alone.
CloseEveryInstance(c) ==
  /\ st[c].pc = "closing"
  /\ st' = [d \in DOMAIN st |->
       IF d = c
       THEN [st[d] EXCEPT !.live = FALSE, !.closes = st[d].closes + 1,
                          !.log = Ev(st[d], "close", 0, 0),
                          !.pc = IF st[d].result.kind = "panic"
                                 THEN "panicked" ELSE "returned"]
       ELSE IF st[d].live
       THEN [st[d] EXCEPT !.live = FALSE, !.closes = st[d].closes + 1]
       ELSE st[d]]

\* The deferred instance.Close(), run when the function returns or panics.
Close(c) ==
  LET s == st[c]
  IN /\ s.pc = "closing"
     /\ st' = [st EXCEPT ![c] =
          [s EXCEPT !.live = FALSE, !.closes = s.closes + 1,
                    !.log = Ev(s, "close", 0, 0),
                    !.pc = IF s.result.kind = "panic" THEN "panicked"
                           ELSE "returned"]]

\* After the close the engine releases the instance's memory, and the
\* memory's place is used anew; the caller still holds the result.  A buffer
\* backed by that memory would change with it.
Reuse(c) ==
  LET s == st[c]
      reused == [i \in 1 .. Len(s.mem) |-> 255]
  IN /\ s.pc = "returned"
     /\ s.result.kind = "ok"
     /\ s.closes = 1
     /\ st' = [st EXCEPT ![c] =
          [s EXCEPT !.pc = "reused",
                    !.mem = reused,
                    !.result.val =
                       IF s.backing = "guest"
                       THEN MemRange(reused, UnpackPointer(s.ptr),
                                     UnpackSz(s.ptr))
                       ELSE s.result.val]]

Next ==
  \E c \in Calls :
    \/ Start(c)
    \/ NewInstance(c)
    \/ StoreParams(c)
    \/ ParseRawDataStoreParams(c)
    \/ ParseRawDataStoreData(c)
    \/ AllocateTable(c)
    \/ AllocateElement(c)
    \/ CallExport(c)
    \/ ParseResult(c)
    \/ CheckName(c)
    \/ Close(c)

Spec == Init /\ [][Next]_vars

\* Every guest call returns and the host's code between two guest calls
\* runs to the next one: a step that can be taken is taken.
SpecFair == Init /\ [][Next]_vars /\ WF_vars(Next)

NextScenario ==
  \E c \in Calls :
    \/ StartScenario(c)
    \/ NewInstance(c)
    \/ StoreParams(c)
    \/ AllocateTable(c)
    \/ AllocateElement(c)
    \/ CallExport(c)
    \/ ParseResult(c)
    \/ Close(c)

SpecScenario == Init /\ [][NextScenario]_vars

\* The operations followed past their return: the caller keeps the result
\* while the closed instance's memory is released.
NextOwnership == Next \/ \E c \in Calls : Reuse(c)

SpecOwnership == Init /\ [][NextOwnership]_vars

(***************************************************************************)
(* Concurrent callers: two calls of Execute, on the same or on different   *)
(* modules of the end-to-end scenario, their steps interleaved at every    *)
(* guest call.  Each call has its own record: the code keeps no            *)
(* package-level state, every variable of an operation is a local.         *)
(***************************************************************************)
ConcurrentCalls == {1, 2}

InitConcurrent == st = [c \in ConcurrentCalls |-> IdleCall]

NextConcurrent ==
  \E c \in ConcurrentCalls :
    \/ StartScenario(c)
    \/ NewInstance(c)
    \/ StoreParams(c)
    \/ AllocateTable(c)
    \/ AllocateElement(c)
    \/ CallExport(c)
    \/ ParseResult(c)
    \/ Close(c)

SpecConcurrent == InitConcurrent /\ [][NextConcurrent]_vars

(***************************************************************************)
(* The descriptor codec on its own: every pair of unsigned field values is *)
(* packed by the expression of allocateInner and allocate (the offset      *)
(* arriving as the guest's i32) and unpacked by that of parseOutput.       *)
(***************************************************************************)
InitCodec ==
  st \in [Calls -> {[pc |-> "pair", length |-> l, offset |-> o, d |-> 0,
                     sz |-> 0, pointer |-> 0] :
                      l \in 0 .. Half - 1, o \in 0 .. Half - 1}]

\* ptr := res.ToI32(); int64(sz<<32) | int64(ptr).
CodecPack(c) ==
  LET s == st[c]
  IN /\ s.pc = "pair"
     /\ st' = [st EXCEPT ![c] =
          [s EXCEPT !.d = PackDescriptor(s.length, ToI32(s.offset)),
                    !.pc = "packed"]]

\* sz, pointer := int(ptr>>32), (ptr & ((1 << 32) - 1)).
CodecUnpack(c) ==
  LET s == st[c]
  IN /\ s.pc = "packed"
     /\ st' = [st EXCEPT ![c] =
          [s EXCEPT !.sz = UnpackSz(s.d), !.pointer = UnpackPointer(s.d),
                    !.pc = "unpacked"]]

NextCodec == \E c \in Calls : CodecPack(c) \/ CodecUnpack(c)

SpecCodec == InitCodec /\ [][NextCodec]_vars

(***************************************************************************)
(* Properties.                                                             *)
(***************************************************************************)
Ended(s) == s.pc \in {"returned", "panicked"}

\* C1 (Bounds rejection).  Whenever parseOutput has been applied to a
\* descriptor whose offset+length exceeds the size of the instance's memory,
\* the operation ends with the InvalidMemoryBounds error: no buffer, no
\* other outcome.
C1_BoundsRejection ==
  \A c \in Calls :
    LET s == st[c]
    IN (s.parsed /\ OffsetField(s.ptr) + LengthField(s.ptr) > Len(s.mem))
         => /\ s.result.kind = "err"
            /\ s.result.err = ErrParseOutput
            /\ s.result.val = <<>>

\* C4 (Codec inverse law), under SpecCodec.  For every pair (length, offset)
\* of unsigned field values, unpacking the packed descriptor gives back
\* exactly (length, offset), also with the top bit of either field set.
C4_CodecInverse ==
  \A c \in Calls :
    LET s == st[c]
    IN s.pc = "unpacked" => s.sz = s.length /\ s.pointer = s.offset

LastStore(s) == s.stores[Len(s.stores)]

\* The memory has not been touched since the last Buffer Writer call.
JustStored(s) ==
  /\ s.stores # <<>>
  /\ LastStore(s).what \in {"params", "data"}
  /\ s.pc \in {"export", "allocTable", "storeData"}

\* C2 (Buffer round trip).  Whenever the Buffer Writer has been called with
\* a buffer B and the guest allocator returned an offset p with at least
\* len(B) bytes of memory from p, the write succeeded, and parseOutput of
\* the descriptor it returned, on the memory as the write left it, is B.
C2_BufferRoundTrip ==
  \A c \in Calls :
    LET s == st[c]
    IN \A i \in 1 .. Len(s.stores) :
         LET a == s.stores[i]
         IN (/\ a.what \in {"params", "data"}
             /\ "__allocate" \in s.exports
             /\ ~a.trap
             /\ a.p + Len(a.data) <= a.memLen)
              => /\ a.kind = "ok"
                 /\ (i = Len(s.stores) /\ JustStored(s))
                      => LET r == parseOutput(s.mem, a.val)
                         IN r.kind = "ok" /\ r.val = a.data

\* The round trip where the offset is one the host can address: below the
\* top bit of the i32.
C2_RoundTripLowOffsets ==
  \A c \in Calls :
    LET s == st[c]
    IN \A i \in 1 .. Len(s.stores) :
         LET a == s.stores[i]
         IN (/\ a.what \in {"params", "data"}
             /\ "__allocate" \in s.exports
             /\ ~a.trap
             /\ a.p < SignBit
             /\ a.p + Len(a.data) <= a.memLen)
              => /\ a.kind = "ok"
                 /\ (i = Len(s.stores) /\ JustStored(s))
                      => LET r == parseOutput(s.mem, a.val)
                         IN r.kind = "ok" /\ r.val = a.data

\* The descriptor stored as entry i (from 1) of the table at offset t.
TableEntry(mem, t, i) ==
  ToI64(FromLittleEndian(MemRange(mem, t + DescBytes * (i - 1), DescBytes)))

\* The bytes a descriptor addresses, read as the wire format defines them.
Deref(mem, d) == MemRange(mem, OffsetField(d), LengthField(d))

InRange(mem, d) == OffsetField(d) + LengthField(d) <= Len(mem)

\* The regions of two allocator calls share no byte.
Disjoint(a, b) ==
  a.n = 0 \/ b.n = 0 \/ a.p + a.n <= b.p \/ b.p + b.n <= a.p

\* The allocator calls of storeBufferArray (the table, then the elements)
\* returned regions inside memory, no two overlapping.
GoodRegions(s) ==
  LET R == {i \in 1 .. Len(s.stores) : s.stores[i].what \in {"table", "elem"}}
  IN /\ \A i \in R : s.stores[i].p + s.stores[i].n <= Len(s.mem)
     /\ \A i, j \in R : i < j => Disjoint(s.stores[i], s.stores[j])

\* storeBufferArray has returned its outer descriptor to Execute.
ArrayStored(s) == s.op = "Execute" /\ s.pc = "export"

\* C3 (Array round trip).  After storeBufferArray succeeded with an
\* allocator that returned in-range, pairwise non-overlapping regions, the k
\* descriptors of the table at the outer descriptor's offset, each
\* dereferenced, are the original buffers in the original order.
C3_ArrayRoundTrip ==
  \A c \in Calls :
    LET s == st[c]
        t == OffsetField(s.wasmInput)
    IN (ArrayStored(s) /\ GoodRegions(s))
         => \A i \in 1 .. Len(s.inputs) :
              /\ t + DescBytes * i <= Len(s.mem)
              /\ InRange(s.mem, TableEntry(s.mem, t, i))
              /\ Deref(s.mem, TableEntry(s.mem, t, i)) = s.inputs[i]

\* The array round trip when the guest has not moved its memory while the
\* elements were allocated.
C3_RoundTripUnmovedMemory ==
  \A c \in Calls :
    LET s == st[c]
        t == OffsetField(s.wasmInput)
    IN (ArrayStored(s) /\ GoodRegions(s) /\ ~s.viewStale)
         => \A i \in 1 .. Len(s.inputs) :
              /\ t + DescBytes * i <= Len(s.mem)
              /\ InRange(s.mem, TableEntry(s.mem, t, i))
              /\ Deref(s.mem, TableEntry(s.mem, t, i)) = s.inputs[i]

Created(s) == s.log # <<>> /\ s.log[1][1] = "new"

\* C5 (Instance closure on every exit path).  When the operation has
\* returned (or unwound in a panic) and instantiation had succeeded, the
\* instance has been closed exactly once, as the last event of the call, on
\* success and on every failure; when instantiation failed there is no
\* instance and nothing was closed; while the host still calls the guest or
\* reads its memory the instance is live and not closed.
C5_InstanceClosure ==
  \A c \in Calls :
    LET s == st[c]
    IN /\ s.closes <= 1
       /\ s.closes = 1 => Ended(s) /\ ~s.live
       /\ (s.pc \notin {"idle", "new"} /\ ~Ended(s)) => s.live /\ s.closes = 0
       /\ Ended(s) =>
            IF s.valid
            THEN /\ Created(s)
                 /\ s.closes = 1
                 /\ \A i \in 1 .. Len(s.log) :
                      s.log[i][1] = "close" <=> i = Len(s.log)
            ELSE s.closes = 0 /\ ~s.live /\ s.log = <<>>

\* An early failure, while the inputs were written, and the instance closed.
C5_ClosedAfterFailure ==
  \E c \in Calls :
    /\ st[c].pc = "returned"
    /\ st[c].result.kind = "err"
    /\ st[c].result.err[1] = "InsufficientMemory"
    /\ st[c].closes = 1
    /\ ~st[c].live

\* C6 (Missing-export rejection).  An operation invoked against a module
\* that lacks the operation's named export ends with the MissingExport
\* failure for that name, whatever else the module exports and whatever its
\* allocator does, and with the instance closed.
C6_MissingExport ==
  \A c \in Calls :
    LET s == st[c]
    IN (Ended(s) /\ s.valid /\ ExportName(s.op) \notin s.exports)
         => /\ s.result.kind = "err"
            /\ s.result.err = ErrNotImplemented(ExportName(s.op))
            /\ s.closes = 1

\* C7 (Allocator re-validation).  Whenever the guest allocator returned an
\* offset p for a request of n bytes and the memory does not hold n bytes
\* from p (p past the end of memory, p negative as an i32), the allocation
\* ended with the InsufficientMemory error.
C7_AllocatorRevalidation ==
  \A c \in Calls :
    LET s == st[c]
    IN \A i \in 1 .. Len(s.stores) :
         LET a == s.stores[i]
         IN ("__allocate" \in s.exports /\ ~a.trap /\ a.p + a.n > a.memLen)
              => a.kind = "err" /\ a.err[1] = "InsufficientMemory"

\* C8 (ParseRawData checks both input writes).  When the write of the
\* params buffer has failed, ParseRawData makes no further allocator call,
\* does not invoke __parse_raw_data, and ends with that failure.
C8_ParamsFailureShortCircuits ==
  \A c \in Calls :
    LET s == st[c]
    IN (s.op = "ParseRawData" /\ s.stores # <<>> /\ s.stores[1].kind # "ok")
         => /\ Len(s.stores) = 1
            /\ \A i \in 1 .. Len(s.log) : s.log[i][1] # "call"
            /\ Ended(s) => s.result.err = s.stores[1].err

\* A character that may stand in a name: not a control character (C0, DEL,
\* C1), not the no-break space, not the soft hyphen.
C9_Printable(r) ==
  /\ r \notin 0 .. 31
  /\ r \notin 127 .. 160
  /\ r # 173

C9_PrintableNameReturned ==
  \E c \in Calls :
    /\ st[c].op = "Name"
    /\ st[c].pc = "returned"
    /\ st[c].result = [kind |-> "ok", val |-> <<194, 169>>, err |-> NoErr]

RECURSIVE TotalLen(_)
TotalLen(bufs) ==
  IF bufs = <<>> THEN 0 ELSE Len(bufs[1]) + TotalLen(Tail(bufs))

\* The bytes the scenario's allocator hands out up to the last element:
\* params, the table, the elements.
C10_HostBytes(s) ==
  Len(s.params) + DescBytes * Len(s.inputs) + TotalLen(s.inputs)

\* Every region the bump allocator hands out (the host's and the result
\* copy) lies inside the memory, and every offset it returns to the host is
\* below the top bit of the i32.
C10_Fits(s) ==
  /\ s.base + C10_HostBytes(s) + Len(s.inputs[1]) <= s.memSize
  /\ s.base + C10_HostBytes(s) - Len(s.inputs[Len(s.inputs)]) < SignBit

InputOps == Ops \ NoInputOps

\* C11 (Every failure is a returned typed failure).  No operation ends other
\* than with (result, no error) or (no result, typed error); an operation
\* that writes inputs, invoked against a module without __allocate, returns
\* the MissingExport failure for __allocate with the instance closed.
C11_TypedFailures ==
  \A c \in Calls :
    LET s == st[c]
    IN /\ s.pc \notin {"panicked", "crashed"}
       /\ Ended(s) =>
            \/ s.result.kind = "ok" /\ s.result.err = NoErr
            \/ s.result.kind = "err" /\ s.result.err # NoErr
                                     /\ s.result.val = <<>>
       /\ (Ended(s) /\ s.valid /\ s.op \in InputOps
           /\ "__allocate" \notin s.exports)
            => /\ s.result.kind = "err"
               /\ s.result.err = ErrNotImplemented("__allocate")
               /\ s.closes = 1

\* The allocator call that asked for the descriptor table.
TableStore(s) ==
  s.stores[CHOOSE i \in 1 .. Len(s.stores) : s.stores[i].what = "table"]

\* C12 (Buffer Array outer descriptor), as claimed.  The outer descriptor
\* storeBufferArray returns has the table offset as its offset field and
\* the byte length of the table, 8*k, as its length field.
C12_OuterDescriptorByteLength ==
  \A c \in Calls :
    LET s == st[c]
    IN ArrayStored(s)
         => /\ OffsetField(s.wasmInput) = TableStore(s).p
            /\ LengthField(s.wasmInput) = DescBytes * Len(s.inputs)

\* C12 (Buffer Array outer descriptor), amended.  The outer descriptor
\* storeBufferArray returns has the table offset as its offset field and
\* the element count k as its length field.
C12_OuterDescriptorElementCount ==
  \A c \in Calls :
    LET s == st[c]
    IN ArrayStored(s)
         => /\ OffsetField(s.wasmInput) = TableStore(s).p
            /\ LengthField(s.wasmInput) = Len(s.inputs)

\* storeBufferArray has returned the descriptor of a two-element array whose
\* table is not at offset 0.
C12_TwoElementArrayStored ==
  \E c \in Calls :
    /\ ArrayStored(st[c])
    /\ Len(st[c].inputs) = 2
    /\ TableStore(st[c]).p > 0
    /\ LengthField(st[c].wasmInput) = 2

\* The events of kind k in a call's log.
Events(s, k) == {i \in 1 .. Len(s.log) : s.log[i][1] = k}

\* The lifecycle step an event belongs to: instantiate, input writes,
\* named-export call, result read, close.
Phase(e) ==
  CASE e[1] = "new" -> 0
    [] e[1] \in {"alloc", "write", "table"} -> 1
    [] e[1] = "call" -> 2
    [] e[1] = "read" -> 3
    [] e[1] = "close" -> 4

\* C13 (Per-call lifecycle ordering).  In every execution of every operation
\* the events occur in the order instantiate, input writes, named-export
\* call, result read, close; the module is instantiated at most once and the
\* named export is invoked at most once; the named export is invoked only if
\* every input write succeeded; the result is read only if the export call
\* returned without error; nothing follows the close.
C13_LifecycleOrdering ==
  \A c \in Calls :
    LET s == st[c]
    IN /\ \A i, j \in 1 .. Len(s.log) :
            i < j => Phase(s.log[i]) <= Phase(s.log[j])
       /\ \A k \in {"new", "call", "read", "close"} :
            Cardinality(Events(s, k)) <= 1
       /\ Events(s, "call") # {} =>
            \A i \in 1 .. Len(s.stores) : s.stores[i].kind = "ok"
       /\ Events(s, "read") # {} =>
            /\ Events(s, "call") # {}
            /\ s.result.err # ErrTrap(ExportName(s.op))
       /\ Events(s, "close") # {} => Ended(s) /\ ~s.live

\* The lifecycle ordering of the operations other than ParseRawData.
C13_OrderingWithCheckedWrites ==
  \A c \in Calls :
    LET s == st[c]
    IN s.op # "ParseRawData" =>
         /\ \A i, j \in 1 .. Len(s.log) :
              i < j => Phase(s.log[i]) <= Phase(s.log[j])
         /\ \A k \in {"new", "call", "read", "close"} :
              Cardinality(Events(s, k)) <= 1
         /\ Events(s, "call") # {} =>
              \A i \in 1 .. Len(s.stores) : s.stores[i].kind = "ok"
         /\ Events(s, "read") # {} =>
              /\ Events(s, "call") # {}
              /\ s.result.err # ErrTrap(ExportName(s.op))
         /\ Events(s, "close") # {} => Ended(s) /\ ~s.live

\* C14 (Buffer-array atomic failure).  When the write of an element of the
\* inputs has failed with the allocator's error or with InsufficientMemory,
\* storeBufferArray has returned that failure and no descriptor, no later
\* element has been allocated or written, __execute is never invoked, and
\* Execute returns that failure.
C14_ArrayAtomicFailure ==
  \A c \in Calls :
    LET s == st[c]
    IN \A i \in 1 .. Len(s.stores) :
         LET a == s.stores[i]
         IN (a.what = "elem" /\ a.kind = "err")
              => /\ a.err[1] \in {"GuestTrap", "InsufficientMemory"}
                 /\ a.val = 0
                 /\ s.wasmInput = 0
                 /\ i = Len(s.stores)
                 /\ s.log[Len(s.log)][1] \in {"alloc", "close"}
                 /\ Events(s, "call") = {}
                 /\ s.pc \in {"closing", "returned"}
                 /\ s.result = [kind |-> "err", val |-> <<>>, err |-> a.err]

\* Execute has returned the failure of the first of two elements, the second
\* never allocated.
C14_FirstElementFailed ==
  \E c \in Calls :
    LET s == st[c]
    IN /\ s.pc = "returned"
       /\ Len(s.inputs) = 2
       /\ Len(s.stores) = 3
       /\ s.stores[3].what = "elem"
       /\ s.stores[3].kind = "err"
       /\ s.stores[3].err = ErrAllocateInner
       /\ s.result.err = ErrAllocateInner

RECURSIVE C15_Protocol(_, _)
\* The events the write protocol prescribes for the allocator calls i.. of a
\* call, all of them successful: the request; for a buffer, the write of its
\* bytes; for element j of the array, then the store of its table entry.
C15_Protocol(s, i) ==
  IF i > Len(s.stores) THEN <<>>
  ELSE LET a == s.stores[i]
           j == i - 3
       IN <<<<"alloc", a.n, a.p>>>>
          \o (IF a.what # "table" /\ a.n > 0
              THEN <<<<"write", a.p, a.n>>>> ELSE <<>>)
          \o (IF a.what = "elem"
              THEN <<<<"table", TableStore(s).p + DescBytes * j, j>>>>
              ELSE <<>>)
          \o C15_Protocol(s, i + 1)

\* The bytes of the descriptor (length n, offset p), least significant first.
C15_EntryBytes(n, p) ==
  [b \in 1 .. DescBytes |-> ((n * Half + p) \div (256 ^ (b - 1))) % 256]

\* C15 (Buffer-array write protocol).  When storeBufferArray has succeeded
\* for k buffers: after the params, exactly k+1 allocator calls were made,
\* one after the other; the first asked 8*k bytes for the table; call i+1
\* asked len(element i) bytes, then element i's bytes were written, and only
\* then its descriptor was stored at table offset 8*i; the outer descriptor
\* is pack(k, tableOffset).  Where the table's view is the memory and the
\* regions do not overlap, entry i holds pack(len(element i), offset i) as
\* little-endian bytes.
C15_WriteProtocol ==
  \A c \in Calls :
    LET s == st[c]
        k == Len(s.inputs)
    IN ArrayStored(s) =>
         /\ Len(s.stores) = k + 2
         /\ s.stores[2].what = "table" /\ s.stores[2].n = DescBytes * k
         /\ \A i \in 1 .. k :
              /\ s.stores[i + 2].what = "elem"
              /\ s.stores[i + 2].data = s.inputs[i]
              /\ s.stores[i + 2].n = Len(s.inputs[i])
         /\ s.log = <<<<"new", 0, 0>>>> \o C15_Protocol(s, 1)
         /\ s.wasmInput = k * Half + s.stores[2].p
         /\ (~s.viewStale /\ GoodRegions(s)) =>
              \A i \in 1 .. k :
                MemRange(s.mem, s.stores[2].p + DescBytes * (i - 1), DescBytes)
                  = C15_EntryBytes(Len(s.inputs[i]), s.stores[i + 2].p)

\* storeBufferArray has succeeded for two buffers, the table and the two
\* elements in three regions apart.
C15_TwoElementsWritten ==
  \E c \in Calls :
    LET s == st[c]
    IN /\ ArrayStored(s)
       /\ s.inputs = <<<<7>>, <<8, 9>>>>
       /\ ~s.viewStale
       /\ GoodRegions(s)
       /\ Len(s.stores) = 4

\* C16 (Guest trap propagation).  When a guest call made during an
\* operation (__allocate or the named export) has returned an error, the
\* operation makes no further guest call and no result read, returns that
\* same error with no result, and closes the instance.
C16_TrapPropagation ==
  \A c \in Calls :
    LET s == st[c]
    IN /\ \A i \in 1 .. Len(s.stores) :
            ("__allocate" \in s.exports /\ s.stores[i].trap)
              => /\ i = Len(s.stores)
                 /\ Events(s, "call") = {}
                 /\ Events(s, "read") = {}
                 /\ s.pc \in {"closing", "returned"}
                 /\ s.result = [kind |-> "err", val |-> <<>>,
                                err |-> ErrTrap("__allocate")]
       /\ (s.op \in Ops /\ s.result.err = ErrTrap(ExportName(s.op)))
            => /\ ~s.parsed
               /\ Events(s, "read") = {}
               /\ s.log[Len(s.log)][1] \in {"call", "close"}
               /\ s.result.kind = "err" /\ s.result.val = <<>>
       /\ (Ended(s) /\ s.result.err[1] = "GuestTrap") => s.closes = 1

\* Trap propagation in the operations other than ParseRawData.
C16_TrapPropagationCheckedWrites ==
  \A c \in Calls :
    LET s == st[c]
    IN s.op # "ParseRawData" =>
         /\ \A i \in 1 .. Len(s.stores) :
              ("__allocate" \in s.exports /\ s.stores[i].trap)
                => /\ i = Len(s.stores)
                   /\ Events(s, "call") = {}
                   /\ Events(s, "read") = {}
                   /\ s.pc \in {"closing", "returned"}
                   /\ s.result = [kind |-> "err", val |-> <<>>,
                                  err |-> ErrTrap("__allocate")]
         /\ (s.op \in Ops /\ s.result.err = ErrTrap(ExportName(s.op)))
              => /\ ~s.parsed
                 /\ Events(s, "read") = {}
                 /\ s.log[Len(s.log)][1] \in {"call", "close"}
                 /\ s.result.kind = "err" /\ s.result.val = <<>>
         /\ (Ended(s) /\ s.result.err[1] = "GuestTrap") => s.closes = 1

\* C17 (Result is a host-owned copy), under SpecOwnership.  The buffer an
\* operation has returned is, byte for byte, the guest memory range the
\* result descriptor addressed at the moment of the read; it stays so when
\* the instance is closed and when the instance's memory changes afterwards;
\* what the caller holds is bytes of the host, not a reference into the
\* guest's memory.
C17_HostOwnedCopy ==
  \A c \in Calls :
    LET s == st[c]
        off == OffsetField(s.ptr)
        n == LengthField(s.ptr)
    IN (s.pc \in {"closing", "returned", "reused"} /\ s.result.kind = "ok")
         => /\ s.parsed
            /\ Len(s.result.val) = n
            /\ off + n <= Len(s.readMem)
            /\ \A i \in 1 .. n : s.result.val[i] = s.readMem[off + i]

\* A caller holds the two bytes an operation returned, the instance closed
\* and its memory since overwritten.
C17_ResultOutlivesMemory ==
  \E c \in Calls :
    LET s == st[c]
    IN /\ s.pc = "reused"
       /\ ~s.live
       /\ s.result.val = <<5, 6>>
       /\ OffsetField(s.ptr) = 0
       /\ s.mem # s.readMem
       /\ s.mem[1] = 255

\* What a call was invoked with, and how far it has come.
C18_Position(s) ==
  <<s.op, s.exports, s.memSize, s.base, s.params, s.inputs, s.pc, s.idx>>

\* What each call shows in every state of a concurrent run: at the same
\* position of the same invocation its whole record (result, memory, the
\* sequence of its guest calls) is the same, whatever the other call did in
\* between; its result is the one the call gives alone; its instance is
\* closed at most once, and exactly once when the call has ended.
C18_SameAsAlone ==
  \A c \in ConcurrentCalls :
    LET s == st[c]
    IN /\ \A d \in ConcurrentCalls :
            C18_Position(st[d]) = C18_Position(s) => st[d] = s
       /\ s.closes <= 1
       /\ s.live => s.closes = 0 /\ Len(s.mem) = s.memSize
       /\ Ended(s) =>
            /\ s.closes = 1
            /\ Cardinality(Events(s, "close")) = 1
            /\ IF C10_Fits(s)
               THEN s.result = [kind |-> "ok", val |-> s.inputs[1],
                                err |-> NoErr]
               ELSE s.result.kind # "ok"

\* A step of one call leaves the other call's record (its instance's memory
\* included) as it was.
C18_OwnRecordOnly ==
  \A c, d \in ConcurrentCalls :
    (c # d /\ st'[c] # st[c]) => st'[d] = st[d]

C19_EveryCallReturnsClosed ==
  \A c \in Calls :
    (st[c].pc # "idle")
      ~> (/\ st[c].pc = "returned"
          /\ ~st[c].live
          /\ st[c].valid => st[c].closes = 1)

\* C20 (Table writes reach the instance's current memory).  When the guest
\* allocator has grown the memory while the elements of a buffer array were
\* allocated (in regions inside memory, none overlapping), the host's table
\* stores never go through a view of the memory that a later allocation has
\* left behind, and after storeBufferArray has succeeded the instance's
\* memory holds, at tableOffset+8*i, the descriptor of every element i.
C20_TableWritesReachMemory ==
  \A c \in Calls :
    LET s == st[c]
    IN /\ s.pc # "crashed"
       /\ (s.op = "Execute" /\ s.pc \in {"allocElem", "export"}) => ~s.viewStale
       /\ (ArrayStored(s) /\ s.grown /\ GoodRegions(s))
            => \A i \in 1 .. Len(s.inputs) :
                 MemRange(s.mem, s.tablePtr + DescBytes * (i - 1), DescBytes)
                   = LittleEndian(ToU64(s.stores[i + 2].val))

\* The table entries are in the memory when the guest grew it in place or
\* while the table itself was allocated.
C20_EntriesInUnmovedMemory ==
  \A c \in Calls :
    LET s == st[c]
    IN (ArrayStored(s) /\ s.grown /\ GoodRegions(s) /\ ~s.viewStale)
         => \A i \in 1 .. Len(s.inputs) :
              MemRange(s.mem, s.tablePtr + DescBytes * (i - 1), DescBytes)
                = LittleEndian(ToU64(s.stores[i + 2].val))

====
